---- MODULE Spec2Model ----
(***************************************************************************)
(* Battery scheduling (src/utils.py, src/battery_schedule.py).             *)
(*                                                                         *)
(* schedule_battery validates a request, builds a linear program, hands    *)
(* it once to an LP solver and classifies the solver's answer;             *)
(* compute_soc_schedule rebuilds the state of charge from the returned     *)
(* power schedule.                                                         *)
(*                                                                         *)
(* Numbers.  Powers, energies and prices are integers.  The conversion     *)
(* efficiency is a fraction num/den.  A state of charge is a multiple of   *)
(* 1/(num*den); it is stored multiplied by num*den (SocScale), so that     *)
(* p * eff is stored as p * num^2 and p / eff as p * den^2.  Float         *)
(* rounding and NaN are outside the model.                                 *)
(*                                                                         *)
(* Solver.  The LP solver is an external program.  It is modelled by its   *)
(* contract: "infeasible" when no point satisfies the constraints,         *)
(* "unbounded" when the objective has no minimum, otherwise "optimal"      *)
(* with any one of the minimum-cost points.  Points are searched on a      *)
(* grid (ems_power in steps of 3, device_power_up in steps of 4,           *)
(* device_power_down in steps of 1).  For the requests of Init             *)
(* (power_capacity and SoC values multiples of 12,                         *)
(* efficiency 1 or 1/2) every vertex of the LP's polyhedron is a grid      *)
(* point, so the grid minimum is the LP minimum and each grid optimum is   *)
(* an optimum of the LP itself.                                            *)
(***************************************************************************)
EXTENDS Integers, Sequences, FiniteSets

VARIABLES
    pc,            \* position in schedule_battery / its caller
    req,           \* the arguments of schedule_battery
    model,         \* the pyomo ConcreteModel, None before it is built
    results,       \* what solver.solve returned, None before
    solve_calls,   \* number of solver.solve invocations
    raised,        \* the exception that left schedule_battery, None if none
    returned,      \* the tuple schedule_battery returned, None if none
    soc_schedule,  \* the latest compute_soc_schedule result, None before
    soc_previous,  \* the compute_soc_schedule result before the latest, None before
    soc_calls      \* number of compute_soc_schedule calls

vars == <<pc, req, model, results, solve_calls, raised, returned,
          soc_schedule, soc_previous, soc_calls>>

None == [none |-> TRUE]

----------------------------------------------------------------------------
(* Bounds of the model *)

MaxPrice == 1      \* prices range over 0..MaxPrice
MaxFlow == 28      \* device_power_down ranges over -MaxFlow..0
MaxLen == 3        \* longest power_schedule given to compute_soc_schedule alone
MaxAbsPower == 2   \* its elements range over -MaxAbsPower..MaxAbsPower

Horizons == {1, 2}   \* lengths of the price series
SocValues == {0, 12, 36}
CapacityValues == {12, 36, 48}
PowerCapacityValues == {0, 12}
Efficiencies == {[num |-> 1, den |-> 1], [num |-> 1, den |-> 2]}
\* the two prices of a period differ by 1, as they do in the repository's
\* price data (consumption = production + 1), here in either direction
PricePairs ==
    {p \in [consumption : 0..MaxPrice, production : 0..MaxPrice] :
        p.consumption - p.production \in {-1, 1}}

RECURSIVE SeqsOfLen(_, _)
SeqsOfLen(S, n) ==
    IF n = 0 THEN {<<>>}
    ELSE {Append(s, x) : s \in SeqsOfLen(S, n - 1), x \in S}

PriceSeries == UNION {SeqsOfLen(PricePairs, n) : n \in Horizons}

Requests ==
    [prices : PriceSeries,
     soc_start : SocValues,
     soc_max : SocValues,
     soc_min : SocValues,
     soc_target : SocValues,
     power_capacity : PowerCapacityValues,
     storage_capacity : CapacityValues,
     conversion_efficiency : Efficiencies,
     top_up : BOOLEAN]

----------------------------------------------------------------------------
(* Arithmetic helpers *)

RECURSIVE SumSeq(_)
SumSeq(s) == IF s = <<>> THEN 0 ELSE Head(s) + SumSeq(Tail(s))

RECURSIVE cumsum(_)
\* numpy.cumsum: element k is the sum of the first k elements
cumsum(s) ==
    IF s = <<>> THEN <<>>
    ELSE LET init == cumsum(SubSeq(s, 1, Len(s) - 1))
         IN  Append(init, (IF init = <<>> THEN 0 ELSE init[Len(init)]) + s[Len(s)])

SocScale(eff) == eff.num * eff.den

----------------------------------------------------------------------------
(* compute_soc_schedule, utils.py 19-28 *)

\* slip: the efficiency is multiplied in for discharging too
adjusted_power_always_times(power, eff) == power * eff.num * eff.num

\* one element of adjusted__power_schedule, times SocScale
adjusted_power(power, eff) ==
    IF power > 0 THEN power * eff.num * eff.num
    ELSE power * eff.den * eff.den

compute_soc_schedule(power_schedule, soc_start, eff) ==
    LET adjusted__power_schedule ==
            [i \in 1..Len(power_schedule) |-> adjusted_power(power_schedule[i], eff)]
        shifted == [i \in 1..Len(power_schedule) |->
                        cumsum(adjusted__power_schedule)[i] + soc_start * SocScale(eff)]
    IN  <<soc_start * SocScale(eff)>> \o shifted

----------------------------------------------------------------------------
(* The validator, utils.py 54-72 *)

\* slip: the band check on soc_target placed before the capacity check
FirstFailedCheck_reordered(r) ==
    IF r.soc_min >= r.soc_max THEN 1
    ELSE IF ~(r.soc_min <= r.soc_start /\ r.soc_start <= r.soc_max) THEN 2
    ELSE IF r.soc_target < r.soc_min \/ r.soc_target > r.soc_max THEN 4
    ELSE IF r.soc_target > r.storage_capacity THEN 3
    ELSE IF r.power_capacity <= 0 THEN 5
    ELSE 0

\* the number of the first check that raises, 0 when none does
FirstFailedCheck(r) ==
    IF r.soc_min >= r.soc_max THEN 1
    ELSE IF ~(r.soc_min <= r.soc_start /\ r.soc_start <= r.soc_max) THEN 2
    ELSE IF r.soc_target > r.storage_capacity THEN 3
    ELSE IF r.soc_target < r.soc_min \/ r.soc_target > r.soc_max THEN 4
    ELSE IF r.power_capacity <= 0 THEN 5
    ELSE 0

----------------------------------------------------------------------------
(* The model, utils.py 74-159 *)

\* model.j and the Params
BuiltModel(r) ==
    [j |-> 0..(Len(r.prices) - 1),
     up_price |-> [j \in 0..(Len(r.prices) - 1) |-> r.prices[j + 1].consumption],
     down_price |-> [j \in 0..(Len(r.prices) - 1) |-> r.prices[j + 1].production],
     device_max |-> [j \in 0..(Len(r.prices) - 1) |-> r.soc_max],
     device_min |-> [j \in 0..(Len(r.prices) - 1) |-> r.soc_min],
     \* Var(..., initialize=0)
     ems_power |-> [j \in 0..(Len(r.prices) - 1) |-> 0],
     device_power_down |-> [j \in 0..(Len(r.prices) - 1) |-> 0],
     device_power_up |-> [j \in 0..(Len(r.prices) - 1) |-> 0]]

\* the domains of the three Vars of one period, on the grid
VarDomain ==
    [ems_power : {3 * k : k \in -(MaxFlow \div 4)..(MaxFlow \div 4)},                 \* Reals
     device_power_down : {d \in -MaxFlow..MaxFlow : d <= 0},                         \* NonPositiveReals
     device_power_up : {u \in {4 * k : k \in -1..((3 * MaxFlow) \div 8)} : u >= 0}]   \* NonNegativeReals

\* Constraint rules.  x holds the values of the three Vars in period j;
\* v is a sequence of such records for periods 0..Len(v)-1.
\* slip: the lower bound left open
ems_derivative_bounds_upper_only(r, x) == x.ems_power <= r.power_capacity

ems_derivative_bounds(r, x) ==
    -r.power_capacity <= x.ems_power /\ x.ems_power <= r.power_capacity

\* slip: the sign of device_power_down
device_derivative_equalities_sign(r, x) ==
    x.device_power_up - x.device_power_down - x.ems_power = 0

device_derivative_equalities(r, x) ==
    x.device_power_up + x.device_power_down - x.ems_power = 0

\* sum(stock_changes) for k in range(0, j + 1), times SocScale
stock_changes(r, v, j) ==
    LET eff == r.conversion_efficiency IN
    SumSeq([k \in 1..(j + 1) |->
                v[k].device_power_down * eff.den * eff.den
              + v[k].device_power_up * eff.num * eff.num])

\* slip: the last period treated like the others
device_bounds_no_terminal(r, m, v, j) ==
    LET eff == r.conversion_efficiency
        soc == r.soc_start * SocScale(eff) + stock_changes(r, v, j)
    IN  m.device_min[j] * SocScale(eff) <= soc /\ soc <= m.device_max[j] * SocScale(eff)

device_bounds(r, m, v, j) ==
    LET eff == r.conversion_efficiency
        soc == r.soc_start * SocScale(eff) + stock_changes(r, v, j)
        lower == IF r.top_up
                 THEN IF j = Len(r.prices) - 1 THEN r.storage_capacity ELSE m.device_min[j]
                 ELSE IF j = Len(r.prices) - 1 THEN r.soc_target ELSE m.device_min[j]
        upper == IF r.top_up
                 THEN IF j = Len(r.prices) - 1 THEN r.storage_capacity ELSE m.device_max[j]
                 ELSE IF j = Len(r.prices) - 1 THEN r.soc_target ELSE m.device_max[j]
    IN  lower * SocScale(eff) <= soc /\ soc <= upper * SocScale(eff)

\* slip: the two price series exchanged
cost_function_swapped(m, v) ==
    SumSeq([k \in 1..Len(v) |->
                v[k].device_power_down * m.up_price[k - 1]
              + v[k].device_power_up * m.down_price[k - 1]])

cost_function(m, v) ==
    SumSeq([k \in 1..Len(v) |->
                v[k].device_power_down * m.down_price[k - 1]
              + v[k].device_power_up * m.up_price[k - 1]])

----------------------------------------------------------------------------
(* The solver, utils.py 160-161, by its contract *)

\* the values of one period that satisfy that period's two constraints
PeriodPoints(r) ==
    {x \in VarDomain : ems_derivative_bounds(r, x) /\ device_derivative_equalities(r, x)}

\* the assignments of periods 0..j that satisfy device_bounds for every k <= j
RECURSIVE Prefixes(_, _, _, _)
Prefixes(r, m, pts, j) ==
    IF j < 0 THEN {<<>>}
    ELSE {v \in {Append(p, x) : p \in Prefixes(r, m, pts, j - 1), x \in pts} :
              device_bounds(r, m, v, j)}

\* the feasible points of the model
Feasible(r, m) == Prefixes(r, m, PeriodPoints(r), Len(r.prices) - 1)

\* The objective has no minimum.  ems_power is bounded, so a direction in
\* which the model stays feasible forever raises device_power_up[j] and lowers
\* device_power_down[j] by the same amounts y[j] >= 0; it changes the SoC of
\* period j by y[j] * (eff - 1/eff), which the SoC band allows for ever only
\* if it is 0, that is eff = 1; it changes the cost by
\* y[j] * (up_price[j] - down_price[j]).
Unbounded(r, m) ==
    /\ Feasible(r, m) # {}
    /\ r.conversion_efficiency.num = r.conversion_efficiency.den
    /\ \E j \in m.j : m.up_price[j] < m.down_price[j]

MinCost(m, F) ==
    LET costs == {cost_function(m, v) : v \in F}
    IN  CHOOSE c \in costs : \A c2 \in costs : c <= c2

\* what solver.solve(model, load_solutions=False) may return
SolverResults(r, m) ==
    LET F == Feasible(r, m) IN
    IF F = {} THEN
        {[status |-> "warning", termination_condition |-> "infeasible", solution |-> None]}
    ELSE IF Unbounded(r, m) THEN
        {[status |-> "warning", termination_condition |-> "unbounded", solution |-> None]}
    ELSE
        LET best == MinCost(m, F) IN
        {[status |-> "ok", termination_condition |-> "optimal", solution |-> v] :
            v \in {w \in F : cost_function(m, w) = best}}

----------------------------------------------------------------------------
(* schedule_battery, step by step *)

Init ==
    /\ pc = "validate"
    /\ req \in Requests
    /\ model = None
    /\ results = None
    /\ solve_calls = 0
    /\ raised = None
    /\ returned = None
    /\ soc_schedule = None
    /\ soc_previous = None
    /\ soc_calls = 0

\* utils.py 57-72, a check raises
ValidateRaise ==
    /\ pc = "validate"
    /\ FirstFailedCheck(req) # 0
    /\ raised' = [type |-> "ValueError", check |-> FirstFailedCheck(req)]
    /\ pc' = "raised"
    /\ UNCHANGED <<req, model, results, solve_calls, returned, soc_schedule, soc_previous, soc_calls>>

\* utils.py 57-72, no check raises
ValidatePass ==
    /\ pc = "validate"
    /\ FirstFailedCheck(req) = 0
    /\ pc' = "build"
    /\ UNCHANGED <<req, model, results, solve_calls, raised, returned, soc_schedule, soc_previous, soc_calls>>

\* utils.py 74-159
Build ==
    /\ pc = "build"
    /\ model' = BuiltModel(req)
    /\ pc' = "solve"
    /\ UNCHANGED <<req, results, solve_calls, raised, returned, soc_schedule, soc_previous, soc_calls>>

\* utils.py 160-162
Solve ==
    /\ pc = "solve"
    /\ results' \in SolverResults(req, model)
    /\ solve_calls' = solve_calls + 1
    /\ pc' = "classify"
    /\ UNCHANGED <<req, model, raised, returned, soc_schedule, soc_previous, soc_calls>>

\* utils.py 165-169: model.solutions.load_from, value(model.costs), the list
LoadAndReturn ==
    /\ pc = "classify"
    /\ results.status = "ok" /\ results.termination_condition = "optimal"
    /\ LET v == results.solution
           loaded == [model EXCEPT
                        !.ems_power = [j \in model.j |-> v[j + 1].ems_power],
                        !.device_power_down = [j \in model.j |-> v[j + 1].device_power_down],
                        !.device_power_up = [j \in model.j |-> v[j + 1].device_power_up]]
           vals == [k \in 1..Cardinality(model.j) |->
                        [ems_power |-> loaded.ems_power[k - 1],
                         device_power_down |-> loaded.device_power_down[k - 1],
                         device_power_up |-> loaded.device_power_up[k - 1]]]
       IN  /\ model' = loaded
           /\ returned' = [planned_costs |-> cost_function(loaded, vals),
                           planned_device_power |->
                               [k \in 1..Cardinality(model.j) |-> loaded.ems_power[k - 1]]]
    /\ pc' = "returned"
    /\ UNCHANGED <<req, results, solve_calls, raised, soc_schedule, soc_previous, soc_calls>>

\* slip: the infeasible branch missing, so that the else branch takes it
RaiseInfeasible_as_runtime ==
    /\ pc = "classify"
    /\ ~(results.status = "ok" /\ results.termination_condition = "optimal")
    /\ results.termination_condition = "infeasible"
    /\ raised' = [type |-> "RuntimeError", check |-> 0,
                  termination_condition |-> results.termination_condition]
    /\ pc' = "raised"
    /\ UNCHANGED <<req, model, results, solve_calls, returned, soc_schedule, soc_previous, soc_calls>>

\* utils.py 170-174
RaiseInfeasible ==
    /\ pc = "classify"
    /\ ~(results.status = "ok" /\ results.termination_condition = "optimal")
    /\ results.termination_condition = "infeasible"
    /\ raised' = [type |-> "ValueError", check |-> 0]
    /\ pc' = "raised"
    /\ UNCHANGED <<req, model, results, solve_calls, returned, soc_schedule, soc_previous, soc_calls>>

\* utils.py 175-176
RaiseRuntime ==
    /\ pc = "classify"
    /\ ~(results.status = "ok" /\ results.termination_condition = "optimal")
    /\ results.termination_condition # "infeasible"
    /\ raised' = [type |-> "RuntimeError", check |-> 0,
                  termination_condition |-> results.termination_condition]
    /\ pc' = "raised"
    /\ UNCHANGED <<req, model, results, solve_calls, returned, soc_schedule, soc_previous, soc_calls>>

\* battery_schedule.py 61, test_battery_schedule.py 29 and 49
Reconstruct ==
    /\ pc = "returned"
    /\ soc_schedule' = compute_soc_schedule(returned.planned_device_power,
                                            req.soc_start, req.conversion_efficiency)
    /\ soc_calls' = soc_calls + 1
    /\ pc' = "done"
    /\ UNCHANGED <<req, model, results, solve_calls, raised, returned, soc_previous>>

Next ==
    \/ ValidateRaise
    \/ ValidatePass
    \/ Build
    \/ Solve
    \/ LoadAndReturn
    \/ RaiseInfeasible
    \/ RaiseRuntime
    \/ Reconstruct

Spec == Init /\ [][Next]_vars

----------------------------------------------------------------------------
(* Properties of schedule_battery *)

Eff == req.conversion_efficiency
T == Len(req.prices)
Validated == FirstFailedCheck(req) = 0
Solved == pc \in {"classify", "raised", "returned", "done"} /\ results # None

\* C1: when top_up is false and schedule_battery returned, the last element of
\* the SoC schedule rebuilt from the returned power schedule is soc_target.
C1_NonTopUpTerminal ==
    (pc = "done" /\ ~req.top_up) =>
        soc_schedule[Len(soc_schedule)] = req.soc_target * SocScale(Eff)

\* C2: when top_up is true and schedule_battery returned, the last element of
\* the rebuilt SoC schedule is storage_capacity.
C2_TopUpTerminal ==
    (pc = "done" /\ req.top_up) =>
        soc_schedule[Len(soc_schedule)] = req.storage_capacity * SocScale(Eff)

\* C3: after a successful call, element j+1 of the rebuilt SoC schedule lies in
\* [soc_min, soc_max] for every non-terminal period j in 0..T-2.
C3_SocBand ==
    (pc = "done") =>
        \A j \in 0..(T - 2) :
            /\ req.soc_min * SocScale(Eff) <= soc_schedule[j + 2]
            /\ soc_schedule[j + 2] <= req.soc_max * SocScale(Eff)

\* the five rules as the validator's contract states them
Rule(r, n) ==
    CASE n = 1 -> r.soc_min < r.soc_max
      [] n = 2 -> r.soc_min <= r.soc_start /\ r.soc_start <= r.soc_max
      [] n = 3 -> r.soc_target <= r.storage_capacity
      [] n = 4 -> r.soc_min <= r.soc_target /\ r.soc_target <= r.soc_max
      [] n = 5 -> r.power_capacity > 0

ViolatedRules(r) == {n \in 1..5 : ~Rule(r, n)}

\* C4: a ValueError of the validator is raised exactly when a rule is violated,
\* it is the one of the lowest-numbered violated rule, and it is raised before
\* any model is built or any solver is invoked.
C4_Validator ==
    (pc # "validate") =>
        /\ ViolatedRules(req) # {} =>
              /\ pc = "raised"
              /\ raised.type = "ValueError"
              /\ raised.check \in ViolatedRules(req)
              /\ \A n \in ViolatedRules(req) : raised.check <= n
              /\ model = None /\ results = None /\ solve_calls = 0
        /\ ViolatedRules(req) = {} => (raised = None \/ raised.check = 0)

\* C4 witness: two rules are violated and the lower one was reported
C4_Witness ==
    /\ pc = "raised"
    /\ ViolatedRules(req) = {3, 5}
    /\ raised.check = 3

\* the terminal requirement R of a request
TerminalRequirement(r) == IF r.top_up THEN r.storage_capacity ELSE r.soc_target

\* R - soc_start > T * power_capacity * eff
TargetOutOfReach(r) ==
    (TerminalRequirement(r) - r.soc_start) * r.conversion_efficiency.den
        > Len(r.prices) * r.power_capacity * r.conversion_efficiency.num

\* C5: a validated request whose terminal requirement is further from soc_start
\* than T periods of charging at power_capacity can bring it has no feasible
\* point and ends in the infeasibility ValueError, never in a schedule.
C5_OutOfReachInfeasible ==
    (Solved /\ TargetOutOfReach(req)) =>
        /\ Feasible(req, model) = {}
        /\ results.termination_condition = "infeasible"
        /\ pc \in {"classify", "raised"}
        /\ pc = "raised" => raised.type = "ValueError" /\ raised.check = 0
        /\ returned = None

\* C5 witness: such a request, at efficiency 1/2, has raised
C5_Witness ==
    /\ pc = "raised" /\ results # None
    /\ TargetOutOfReach(req)
    /\ Eff.den = 2
    /\ raised.type = "ValueError"

\* the Var values the model holds, as one sequence of periods
LoadedValues ==
    [k \in 1..T |-> [ems_power |-> model.ems_power[k - 1],
                     device_power_down |-> model.device_power_down[k - 1],
                     device_power_up |-> model.device_power_up[k - 1]]]

NothingLoaded ==
    \A j \in model.j :
        model.ems_power[j] = 0 /\ model.device_power_down[j] = 0 /\ model.device_power_up[j] = 0

\* C6: the solver is invoked once; (ok, optimal) loads the solution and returns,
\* infeasible raises ValueError, everything else raises RuntimeError with the
\* termination condition; no failure loads or returns anything.
C6_AllOrNothing ==
    /\ solve_calls <= 1
    /\ (solve_calls = 0) <=> (results = None)
    /\ pc \in {"solve", "classify"} => NothingLoaded /\ returned = None /\ raised = None
    /\ (pc \in {"raised", "returned", "done"} /\ results # None) =>
          LET optimal == results.status = "ok" /\ results.termination_condition = "optimal"
          IN  /\ optimal =>
                    /\ pc \in {"returned", "done"} /\ raised = None
                    /\ LoadedValues = results.solution
                    /\ returned.planned_device_power =
                           [k \in 1..T |-> results.solution[k].ems_power]
              /\ (~optimal /\ results.termination_condition = "infeasible") =>
                    pc = "raised" /\ raised.type = "ValueError"
              /\ (~optimal /\ results.termination_condition # "infeasible") =>
                    /\ pc = "raised" /\ raised.type = "RuntimeError"
                    /\ raised.termination_condition = results.termination_condition
              /\ pc = "raised" => NothingLoaded /\ returned = None /\ soc_calls = 0

\* C6 witness: a solver answer that is neither optimal nor infeasible was raised
C6_Witness ==
    /\ pc = "raised" /\ results # None
    /\ results.termination_condition \notin {"optimal", "infeasible"}
    /\ raised.type = "RuntimeError"

\* the objective as the contract states it, on the request's prices
Objective(r, v) ==
    SumSeq([k \in 1..Len(v) |->
                v[k].device_power_down * r.prices[k].production
              + v[k].device_power_up * r.prices[k].consumption])

\* C7: the returned cost is the objective at the returned solution, and no
\* point satisfying the constraints of the request has a lower objective.
C7_CostMinimal ==
    (pc \in {"returned", "done"}) =>
        /\ returned.planned_costs = Objective(req, LoadedValues)
        /\ \A v \in Feasible(req, model) : Objective(req, v) >= returned.planned_costs

\* C7 witness: a schedule was returned although a dearer feasible point exists
C7_Witness ==
    /\ pc = "returned"
    /\ T = 2
    /\ \E v \in Feasible(req, model) : Objective(req, v) > returned.planned_costs

\* C8: the returned power schedule has T elements, each within
\* [-power_capacity, power_capacity] and equal to charge + discharge power,
\* with charge >= 0 and discharge <= 0.
C8_PowerLimit ==
    (pc \in {"returned", "done"}) =>
        /\ Len(returned.planned_device_power) = Len(req.prices)
        /\ \A k \in 1..Len(returned.planned_device_power) :
              LET p == returned.planned_device_power[k] IN
              /\ -req.power_capacity <= p /\ p <= req.power_capacity
              /\ p = model.device_power_up[k - 1] + model.device_power_down[k - 1]
              /\ model.device_power_up[k - 1] >= 0
              /\ model.device_power_down[k - 1] <= 0

\* C8 witness: a returned schedule that charges and discharges in one period
\* at the power limit
C8_Witness ==
    /\ pc = "returned"
    /\ \E k \in 1..T :
          /\ returned.planned_device_power[k] = -req.power_capacity
          /\ model.device_power_up[k - 1] > 0
          /\ model.device_power_down[k - 1] < 0

\* consumption_price[j] >= production_price[j] in every period
BuyNotBelowSell(r) ==
    \A k \in 1..Len(r.prices) : r.prices[k].consumption >= r.prices[k].production

NetCost(r, v) == SumSeq([k \in 1..Len(v) |-> v[k].ems_power * r.prices[k].consumption])

Abs(n) == IF n < 0 THEN -n ELSE n

\* C10: when no period sells dearer than it buys, every point within the
\* variable domains, the power bounds and the flow balance costs at least
\* sum(net_power * consumption_price) >= -power_capacity * sum(|consumption_price|);
\* the solver never reports unbounded and a feasible request is solved to
\* optimality, not raised as RuntimeError.
C10_BoundedObjective ==
    /\ (pc = "solve" /\ BuyNotBelowSell(req)) =>
          \A v \in SeqsOfLen(PeriodPoints(req), T) :
              /\ cost_function(model, v) >= NetCost(req, v)
              /\ NetCost(req, v) >=
                    -req.power_capacity * SumSeq([k \in 1..T |-> Abs(req.prices[k].consumption)])
    /\ (Solved /\ BuyNotBelowSell(req)) =>
          /\ results.termination_condition \in {"optimal", "infeasible"}
          /\ results.termination_condition = "infeasible" => Feasible(req, model) = {}
          /\ pc = "raised" => raised.type # "RuntimeError"

\* C10 witness: such a request of two periods was solved to optimality and
\* returned a schedule that discharges
C10_Witness ==
    /\ pc = "returned"
    /\ BuyNotBelowSell(req)
    /\ T = 2
    /\ \E k \in 1..T : returned.planned_device_power[k] < 0

----------------------------------------------------------------------------
(* compute_soc_schedule on its own *)

SocPowerSchedules == UNION {SeqsOfLen(-MaxAbsPower..MaxAbsPower, n) : n \in 0..MaxLen}
SocStarts == {0, 1, 5}
SocEfficiencies == {[num |-> 1, den |-> 1], [num |-> 1, den |-> 2],
                    [num |-> 2, den |-> 3], [num |-> 3, den |-> 2]}

InitSoc ==
    /\ pc = "soc"
    /\ req \in [power_schedule : SocPowerSchedules,
                 soc_start : SocStarts,
                 conversion_efficiency : SocEfficiencies]
    /\ model = None
    /\ results = None
    /\ solve_calls = 0
    /\ raised = None
    /\ returned = None
    /\ soc_schedule = None
    /\ soc_previous = None
    /\ soc_calls = 0

\* a call of compute_soc_schedule, utils.py 19-28; it may be repeated
ComputeSoc ==
    /\ pc = "soc"
    /\ soc_calls < 2
    /\ soc_schedule' = compute_soc_schedule(req.power_schedule, req.soc_start,
                                            req.conversion_efficiency)
    /\ soc_previous' = soc_schedule
    /\ soc_calls' = soc_calls + 1
    /\ UNCHANGED <<pc, req, model, results, solve_calls, raised, returned>>

NextSoc == ComputeSoc

SpecSoc == InitSoc /\ [][NextSoc]_vars

\* p * efficiency if p > 0, else p / efficiency, in units of 1/(num*den)
Adj(p, eff) ==
    IF p > 0 THEN (p * eff.num * SocScale(eff)) \div eff.den
    ELSE (p * eff.den * SocScale(eff)) \div eff.num

\* C9: compute_soc_schedule returns T+1 values, the first is soc_start, the
\* k-th after it is soc_start plus the adjusted powers of the first k periods,
\* and a second call on the same arguments returns the same.
C9_Reconstruction ==
    (pc = "soc" /\ soc_calls > 0) =>
        /\ Len(soc_schedule) = Len(req.power_schedule) + 1
        /\ soc_schedule[1] = req.soc_start * SocScale(Eff)
        /\ \A k \in 1..Len(req.power_schedule) :
              soc_schedule[k + 1] =
                  req.soc_start * SocScale(Eff)
                + SumSeq([i \in 1..k |-> Adj(req.power_schedule[i], Eff)])
        /\ soc_calls = 2 => soc_previous = soc_schedule

\* C9 witness: a second call on a schedule that charges and discharges, at an
\* efficiency other than 1
C9_Witness ==
    /\ pc = "soc" /\ soc_calls = 2
    /\ Eff.num # Eff.den
    /\ \E i \in 1..Len(req.power_schedule) : req.power_schedule[i] > 0
    /\ \E i \in 1..Len(req.power_schedule) : req.power_schedule[i] < 0

====
